---- MODULE Spec2Model ----
(***************************************************************************)
(* Distance-Metric-Learning: the three ranking functions of                *)
(* distance_metric_learning.py (find_n_most_similar,                       *)
(* find_n_most_similar_weighted, find_n_most_similar_classifications),     *)
(* their dispatcher find_n_most_similar_for_a_file, and the batch loop of  *)
(* __main__ that drives process_batch over the sets all_files and          *)
(* used_files.                                                             *)
(*                                                                         *)
(* Numbers.  The code computes floating-point z-scores and Euclidean       *)
(* distances.  The model keeps table values integral and ranks by an exact *)
(* integer key that is a positive multiple of the squared distance (see    *)
(* SqDistKey), so two keys compare exactly as the two real distances do.   *)
(* A missing value of the data file (JSON null, or a key a record lacks)   *)
(* is NaN in the DataFrame: the cell Null.  Arithmetic on NaN gives NaN    *)
(* and every comparison with NaN is false.                                 *)
(***************************************************************************)
EXTENDS Integers, Sequences, FiniteSets, TLC

(***************************************************************************)
(* Bounds of the model.                                                    *)
(***************************************************************************)
MaxRows == 4      \* corpus sizes 0..MaxRows of the batch loop
RankRows == 4     \* table sizes 0..RankRows of a single ranking call
MaxN == 2         \* requested result counts 0..MaxN
MaxNMax == 2      \* explicit -nm arguments 0..MaxNMax (besides the default -1)
MaxBatches == 5   \* the batch counter saturates here
NullRows == 2     \* table sizes 0..NullRows of a call on a table with missing values

(***************************************************************************)
(* Program constants.                                                      *)
(***************************************************************************)
DefaultNMax == -1     \* argparse default of --n-max
DefaultN == 5         \* argparse default of -n
DefaultWeight == 1    \* weight of a column the weight map does not list

NoId == 0                    \* identifier_to_test is None (-id not given)
AbsentId == MaxRows + RankRows + 1   \* an identifier no row of a table carries
NoMetric == ""               \* metric_to_analyze is None
NoOps == [present |-> FALSE, class |-> "", n |-> 0, has_weights |-> FALSE,
          weights |-> [k \in {} |-> 0], exclusive_weights |-> FALSE]

Min(a, b) == IF a < b THEN a ELSE b
Max(a, b) == IF a < b THEN b ELSE a
Range(s) == {s[i] : i \in DOMAIN s}

(***************************************************************************)
(* The Feature Table: df = pd.json_normalize(data, sep="_").  A row is a   *)
(* record over Columns; rows keep the order of the table.                  *)
(***************************************************************************)
Columns == <<"id", "stats_x", "stats_y", "classifications_g">>
Values == {0, 1}     \* the descriptor values a table may hold
Null == -1           \* a missing value: NaN in the DataFrame
NaN == -1            \* the distance computed from a NaN
CellValues == Values \cup {Null}

\* `tok in col` (Python substring test) on the column names of the table.
NameContains(tok, col) ==
    \/ tok = "stats" /\ col \in {"stats_x", "stats_y"}
    \/ tok = "classifications" /\ col \in {"classifications_g"}
    \/ tok = col

\* [col for col in df.columns if clss in col]
ColumnsContaining(clss) == SelectSeq(Columns, LAMBDA c : NameContains(clss, c))

Ids(df) == {df[i].id : i \in DOMAIN df}
IdList(df) == [i \in DOMAIN df |-> df[i].id]

\* df_copy[~df_copy['id'].isin(used_files)]
ExcludeUsed(df, used) == SelectSeq(df, LAMBDA r : r.id \notin used)

\* df[df["id"] == identifier]
RowsWithId(df, identifier) == SelectSeq(df, LAMBDA r : r.id = identifier)

(***************************************************************************)
(* StandardScaler.fit_transform over the rows of df: z = (x - mean)/scale, *)
(* scale = population standard deviation, replaced by 1 when it is 0.      *)
(* The scaler fits each column on its values that are not NaN (N of them)  *)
(* and leaves a NaN a NaN.  Scale2(df, col) is N^2 * scale^2, an integer.  *)
(***************************************************************************)
RECURSIVE ColCount(_, _, _)
ColCount(df, col, i) ==
    IF i > Len(df) THEN 0
    ELSE (IF df[i][col] = Null THEN 0 ELSE 1) + ColCount(df, col, i + 1)

RECURSIVE ColSum(_, _, _)
ColSum(df, col, i) ==
    IF i > Len(df) THEN 0
    ELSE (IF df[i][col] = Null THEN 0 ELSE df[i][col]) + ColSum(df, col, i + 1)

RECURSIVE ColSumSq(_, _, _)
ColSumSq(df, col, i) ==
    IF i > Len(df) THEN 0
    ELSE (IF df[i][col] = Null THEN 0 ELSE df[i][col] * df[i][col])
         + ColSumSq(df, col, i + 1)

\* N^2 * population variance of the column
VarN2(df, col) ==
    ColCount(df, col, 1) * ColSumSq(df, col, 1) - ColSum(df, col, 1) * ColSum(df, col, 1)

\* N^2 of the column; 1 for a column of NaN only, whose every z-score is NaN
Count2(df, col) ==
    IF ColCount(df, col, 1) = 0 THEN 1 ELSE ColCount(df, col, 1) * ColCount(df, col, 1)

Scale2(df, col) ==
    IF VarN2(df, col) = 0 THEN Count2(df, col) ELSE VarN2(df, col)

\* the scaler fitted on the columns cols of df: column -> N^2 and N^2 * scale^2
\* (f @@ <<>> is f, tabulated once instead of at every application)
Fitted(df, cols) ==
    [c \in Range(cols) |-> [n2 |-> Count2(df, c), s2 |-> Scale2(df, c)]] @@ <<>>

\* no scaler: the raw columns of classification mode
Unscaled(cols) == [c \in Range(cols) |-> [n2 |-> 1, s2 |-> 1]]

RECURSIVE ProdOthers(_, _, _, _)
ProdOthers(scales, cols, skip, i) ==
    IF i > Len(cols) THEN 1
    ELSE (IF i = skip THEN 1 ELSE scales[cols[i]].s2)
         * ProdOthers(scales, cols, skip, i + 1)

(***************************************************************************)
(* The rank key of one candidate row against the reference row:            *)
(*   sum over cols of ((ref[c] - row[c]) * w(c))^2 / scale(c)^2            *)
(* multiplied by the product of all scales[c].s2, which is positive and    *)
(* the same for every candidate of one call.  sqrt is monotone, so keys    *)
(* order and tie exactly as the distances do.  w maps each column to its   *)
(* weight.                                                                 *)
(***************************************************************************)
RECURSIVE SqDistKey(_, _, _, _, _, _)
SqDistKey(scales, ref, row, cols, w, i) ==
    IF i > Len(cols) THEN 0
    ELSE LET diff == (ref[cols[i]] - row[cols[i]]) * w[cols[i]]
         IN  diff * diff * scales[cols[i]].n2 * ProdOthers(scales, cols, i, 1)
             + SqDistKey(scales, ref, row, cols, w, i + 1)

\* a NaN in a compared column of either row makes the distance NaN (also under
\* weight 0: 0 * NaN is NaN)
DistKey(scales, ref, row, cols, w) ==
    IF \E c \in Range(cols) : ref[c] = Null \/ row[c] = Null THEN NaN
    ELSE SqDistKey(scales, ref, row, cols, w, 1)

(***************************************************************************)
(* distances.sort(key=lambda x: x[1]) on a list of <<id, key>> pairs.      *)
(* CPython's list.sort on fewer than 64 elements: count_run finds the      *)
(* leading run (non-descending, or strictly descending and then reversed)  *)
(* and binarysort inserts every later element with a binary search that    *)
(* uses only the comparison key(a) < key(b), which is false when either    *)
(* key is NaN.                                                             *)
(***************************************************************************)
\* mutant of KeyLT: compares with <= where the sort needs <
KeyLT_OrEqual(a, b) == a[2] <= b[2]

KeyLT(a, b) == a[2] # NaN /\ b[2] # NaN /\ a[2] < b[2]

Reverse(s) == [i \in 1..Len(s) |-> s[Len(s) + 1 - i]]

RECURSIVE RunDescending(_, _)
RunDescending(s, k) ==
    IF k <= Len(s) /\ KeyLT(s[k], s[k - 1]) THEN RunDescending(s, k + 1) ELSE k - 1

RECURSIVE RunAscending(_, _)
RunAscending(s, k) ==
    IF k <= Len(s) /\ ~KeyLT(s[k], s[k - 1]) THEN RunAscending(s, k + 1) ELSE k - 1

\* count_run: length of the leading run and whether it is descending (Len(s) >= 2)
CountRun(s) ==
    IF KeyLT(s[2], s[1])
    THEN [n |-> RunDescending(s, 3), descending |-> TRUE]
    ELSE [n |-> RunAscending(s, 3), descending |-> FALSE]

\* binarysort's search: the slot in l..r at which pivot goes
RECURSIVE BinSearch(_, _, _, _)
BinSearch(s, pivot, l, r) ==
    IF l >= r THEN l
    ELSE LET p == l + ((r - l) \div 2)
         IN  IF KeyLT(pivot, s[p]) THEN BinSearch(s, pivot, l, p)
             ELSE BinSearch(s, pivot, p + 1, r)

\* move s[i] to slot l <= i, sliding s[l..i-1] one place right
InsertAt(s, l, i) ==
    SubSeq(s, 1, l - 1) \o <<s[i]>> \o SubSeq(s, l, i - 1) \o SubSeq(s, i + 1, Len(s))

RECURSIVE BinarySort(_, _)
BinarySort(s, i) ==
    IF i > Len(s) THEN s
    ELSE BinarySort(InsertAt(s, BinSearch(s, s[i], 1, i), i), i + 1)

ListSort(s) ==
    IF Len(s) < 2 THEN s
    ELSE LET run == CountRun(s)
             s1 == IF run.descending
                   THEN Reverse(SubSeq(s, 1, run.n)) \o SubSeq(s, run.n + 1, Len(s))
                   ELSE s
         IN  BinarySort(s1, run.n + 1)

\* mutant of Take: the slice is one entry too long
Take_OneMore(s, n) == SubSeq(s, 1, Min(n + 1, Len(s)))

\* distances[:n]
Take(s, n) ==
    IF n >= 0 THEN SubSeq(s, 1, Min(n, Len(s)))
    ELSE SubSeq(s, 1, Max(0, Len(s) + n))

\* [item[0] for item in ...]
Firsts(s) == [i \in DOMAIN s |-> s[i][1]]

(***************************************************************************)
(* What a call yields: a list of identifiers, None, or a raised exception. *)
(***************************************************************************)
Return(ids) == [kind |-> "list", ids |-> ids, err |-> ""]
ReturnNone == [kind |-> "None", ids |-> <<>>, err |-> ""]
Raise(e) == [kind |-> "raise", ids |-> <<>>, err |-> e]

\* raise ValueError("Invalid sound data")
InvalidSoundData == "ValueError: Invalid sound data"

\* mutant of Candidates: the reference row is not skipped
Candidates_KeepReference(df, identifier) == df

\* for index, row in df.iterrows(): if row["id"] != identifier: ...
Candidates(df, identifier) == SelectSeq(df, LAMBDA r : r.id # identifier)

\* the list `distances` before it is sorted
Distances(df, identifier, sound_data, cols, scales, w) ==
    LET cand == Candidates(df, identifier)
    IN  [i \in DOMAIN cand |->
            <<cand[i].id, DistKey(scales, sound_data, cand[i], cols, w)>>]

UnitWeights(cols) == [c \in Range(cols) |-> 1]

(***************************************************************************)
(* find_n_most_similar(identifier, df, metric, n, clss)                    *)
(***************************************************************************)
\* distances.sort(key=lambda x: x[1]); return [item[0] for item in distances[:n]]
Ranked(distances, n) == Return(Firsts(Take(ListSort(distances), n)))

\* columns_to_compare of lines 26-37
MetricColumns(metric, clss) ==
    IF metric # NoMetric THEN <<clss \o "_" \o metric>> ELSE ColumnsContaining(clss)

\* the list `distances` of lines 39-44 (the identifier is in df)
MetricDistances(identifier, df, metric, clss) ==
    LET columns_to_compare == MetricColumns(metric, clss)
    IN  Distances(df, identifier, RowsWithId(df, identifier)[1], columns_to_compare,
                  Fitted(df, columns_to_compare), UnitWeights(columns_to_compare))

find_n_most_similar(identifier, df, metric, n, clss) ==
    LET columns_to_compare == MetricColumns(metric, clss)
    IN  IF metric # NoMetric /\ (clss \o "_" \o metric) \notin Range(Columns)
        THEN Raise("ValueError")          \* the metric doesn't exist in the data
        ELSE IF Len(df) = 0 \/ Len(columns_to_compare) = 0
        THEN Raise("ValueError")          \* StandardScaler on an empty array
        ELSE IF Len(RowsWithId(df, identifier)) = 0
        THEN Raise("IndexError")          \* .iloc[0] on an empty frame
        ELSE Ranked(MetricDistances(identifier, df, metric, clss), n)

(***************************************************************************)
(* find_n_most_similar_weighted(identifier, df, ops)                       *)
(***************************************************************************)
\* the dict `weights` after lines 72-80, as a function on the listed columns
WeightsOf(ops, data_columns) ==
    LET clss == ops.class
        default == [c \in Range(data_columns) |-> 1]
        start == IF ops.exclusive_weights THEN [c \in {} |-> 1] ELSE default
        listed == {k \in DOMAIN ops.weights : (clss \o "_" \o k) \in Range(data_columns)}
        key(c) == CHOOSE k \in listed : (clss \o "_" \o k) = c
        named == {clss \o "_" \o k : k \in listed}
    IN  IF ~ops.has_weights THEN default
        ELSE [c \in (DOMAIN start) \cup named |->
                 IF c \in named THEN ops.weights[key(c)] ELSE start[c]]

\* weights.get(col, 1)
WeightGet(weights, col) ==
    IF col \in DOMAIN weights THEN weights[col] ELSE DefaultWeight

\* the weight each column of data_columns gets on line 90
EffectiveWeights(ops, data_columns) ==
    LET weights == WeightsOf(ops, data_columns)
    IN  [col \in Range(data_columns) |-> WeightGet(weights, col)] @@ <<>>

\* sound_data.isnull().values.any(): a NaN in any column of the reference row
HasNull(sound_data) == \E c \in DOMAIN sound_data : sound_data[c] = Null

\* the list `distances` of lines 86-92 (the identifier is in df)
WeightedDistances(identifier, df, ops) ==
    LET data_columns == ColumnsContaining(ops.class)
    IN  Distances(df, identifier, RowsWithId(df, identifier)[1], data_columns,
                  Fitted(df, data_columns), EffectiveWeights(ops, data_columns))

find_n_most_similar_weighted(identifier, df, ops) ==
    LET data_columns == ColumnsContaining(ops.class)
    IN  IF Len(df) = 0 \/ Len(data_columns) = 0
        THEN Raise("ValueError")          \* StandardScaler on an empty array
        ELSE IF Len(RowsWithId(df, identifier)) = 0
        THEN Raise("IndexError")          \* .iloc[0] on an empty frame
        ELSE IF HasNull(RowsWithId(df, identifier)[1])
        THEN Raise(InvalidSoundData)      \* lines 84-85
        ELSE Ranked(WeightedDistances(identifier, df, ops), ops.n)

(***************************************************************************)
(* find_n_most_similar_classifications(identifier, df, None, n, clss)      *)
(* Raw values, no standardization.  sound_data[...].values[0] is evaluated *)
(* inside the loop, so a missing identifier raises only when the loop body *)
(* runs at least once.                                                     *)
(***************************************************************************)
\* the list `distances` of lines 109-114 (the identifier is in df)
ClassificationDistances(identifier, df, clss) ==
    LET columns_to_compare == ColumnsContaining(clss)
    IN  Distances(df, identifier, RowsWithId(df, identifier)[1], columns_to_compare,
                  Unscaled(columns_to_compare), UnitWeights(columns_to_compare))

find_n_most_similar_classifications(identifier, df, n, clss) ==
    IF Len(RowsWithId(df, identifier)) = 0 /\ Len(Candidates(df, identifier)) > 0
    THEN Raise("IndexError")              \* .values[0] of an empty selection
    ELSE IF Len(RowsWithId(df, identifier)) = 0
    THEN Return(<<>>)                     \* empty table: the loop body never runs
    ELSE Ranked(ClassificationDistances(identifier, df, clss), n)

(***************************************************************************)
(* find_n_most_similar_for_a_file(used_files, id, df, metric, n, clss, ops)*)
(* The ops branch calls the weighted function and has no return statement. *)
(* The value is the pair of what the called ranking function yielded       *)
(* (ranking) and what the dispatcher hands back to its caller (returned).  *)
(***************************************************************************)
\* a call whose value is dropped: None, unless the call raises
Discard(result) == IF result.kind = "raise" THEN result ELSE ReturnNone

Kept(result) == [ranking |-> result, returned |-> result]
Dropped(result) == [ranking |-> result, returned |-> Discard(result)]

find_n_most_similar_for_a_file(used, id, table, metric, count, clss, options) ==
    LET df_copy == ExcludeUsed(table, used)
    IN  IF clss = "classifications"
        THEN Kept(find_n_most_similar_classifications(id, df_copy, count, clss))
        ELSE IF options.present
        THEN Dropped(find_n_most_similar_weighted(id, df_copy, options))
        ELSE Kept(find_n_most_similar(id, df_copy, metric, count, clss))

(***************************************************************************)
(* State of one execution of __main__.                                     *)
(***************************************************************************)
VARIABLES
    df,                  \* the table loaded from --data-path
    identifier_to_test,  \* -id, or NoId
    metric_to_analyze,   \* -m, or NoMetric
    class_to_analyse,    \* -cls
    n,                   \* -n
    ops,                 \* metric_ops.yaml when -ops is given, or NoOps
    n_max,               \* -nm after lines 189-190
    all_files,           \* identifiers not yet processed
    used_files,          \* identifiers already grouped
    pc,                  \* "loop": at the while test; "done": the loop exited;
                         \* "crashed": an exception left process_batch
    batches,             \* calls of process_batch so far (saturating)
    groups,              \* the (file_id, similar_files) pairs handed to
                         \* copy_similar_to_folders so far
    last                 \* the latest call of process_batch / of the dispatcher

vars == <<df, identifier_to_test, metric_to_analyze, class_to_analyse, n, ops,
          n_max, all_files, used_files, pc, batches, groups, last>>

config == <<df, identifier_to_test, metric_to_analyze, class_to_analyse, n, ops, n_max>>

(***************************************************************************)
(* Inputs.                                                                 *)
(***************************************************************************)
\* a row with identifier i whose columns cols hold v; the other columns hold 0
RowOf(i, cols, v) ==
    [c \in Range(Columns) |-> IF c = "id" THEN i ELSE IF c \in cols THEN v[c] ELSE 0]

\* tables of s rows with unique identifiers 1..s in table order
TablesOfSize(s, cols) ==
    {[i \in 1..s |-> RowOf(i, cols, t[i])] : t \in [1..s -> [cols -> Values]]}

Tables(rows, cols) == UNION {TablesOfSize(s, cols) : s \in 0..rows}

IdChoices == {NoId, 1, AbsentId}
NMaxChoices == {DefaultNMax} \cup (0..MaxNMax)
WeightValues == {0, 2}
WeightMaps == UNION {[ks -> WeightValues] : ks \in {{}, {"x"}}} \cup {[k \in {"bogus"} |-> 2]}

OpsChoices ==
    {[present |-> TRUE, class |-> "stats", n |-> k, has_weights |-> TRUE,
      weights |-> wm, exclusive_weights |-> ex] :
        k \in 0..MaxN, wm \in WeightMaps, ex \in BOOLEAN}
    \cup
    {[present |-> TRUE, class |-> "stats", n |-> k, has_weights |-> FALSE,
      weights |-> [x \in {} |-> 0], exclusive_weights |-> FALSE] : k \in 0..MaxN}

NoBatch == [outcome |-> "none", primary |-> NoId, mode |-> "", pool |-> <<>>,
            engine |-> ReturnNone, similar |-> ReturnNone,
            all_before |-> {}, used_before |-> {}]

\* lines 188-191
Start(table, id, metric, clss, count, options, nm) ==
    /\ df = table
    /\ identifier_to_test = id
    /\ metric_to_analyze = metric
    /\ class_to_analyse = clss
    /\ n = count
    /\ ops = options
    /\ all_files = Ids(table)
    /\ n_max = IF nm = DefaultNMax THEN Cardinality(Ids(table)) ELSE nm
    /\ used_files = {}
    /\ pc = "loop"
    /\ batches = 0
    /\ groups = {}
    /\ last = NoBatch

\* The batch loop: corpora of up to MaxRows items that differ in one column.
Init ==
    \/ \E table \in Tables(MaxRows, {"stats_x"}), id \in IdChoices, count \in 0..MaxN,
          nm \in NMaxChoices, metric \in {NoMetric, "x"} :
          Start(table, id, metric, "stats", count, NoOps, nm)
    \/ \E table \in Tables(MaxRows, {"stats_x"}), id \in IdChoices :
          Start(table, id, "bogus", "stats", DefaultN, NoOps, DefaultNMax)
    \/ \E table \in Tables(MaxRows, {"classifications_g"}), id \in IdChoices,
          count \in 0..MaxN, nm \in NMaxChoices :
          Start(table, id, NoMetric, "classifications", count, NoOps, nm)
    \/ \E table \in Tables(MaxRows, {"stats_x"}), id \in {NoId, 1},
          options \in OpsChoices :
          Start(table, id, NoMetric, "stats", DefaultN, options, DefaultNMax)

(***************************************************************************)
(* process_batch, lines 133-143, called from the loop of lines 194-195.    *)
(* An exception raised inside it leaves run_until_complete and ends the    *)
(* program; all_files.pop() has already happened by then.                  *)
(***************************************************************************)
EngineMode(clss, options) ==
    IF clss = "classifications" THEN "classifications"
    ELSE IF options.present THEN "weighted"
    ELSE "metric"

\* used_files.update(similar_files)
UpdateUsed(used, primary_file, similar_files) == used \cup Range(similar_files)

\* mutant of DifferenceUpdate: the remaining set is rebuilt from the table
DifferenceUpdate_Rebuild(files, used) == Ids(df) \ used

\* all_files.difference_update(used_files)
DifferenceUpdate(files, used) == files \ used

Bump(k) == IF k < MaxBatches THEN k + 1 ELSE k

\* len(similar_files) on line 140 raises TypeError on None
Outcome(similar) ==
    IF similar.kind = "raise" THEN similar.err
    ELSE IF similar.kind = "None" THEN "TypeError"
    ELSE "ok"

CallRecord(primary_file, call, outcome) ==
    [outcome |-> outcome, primary |-> primary_file,
     mode |-> EngineMode(class_to_analyse, ops),
     pool |-> IdList(ExcludeUsed(df, used_files)),
     engine |-> call.ranking,
     similar |-> call.returned,
     all_before |-> all_files, used_before |-> used_files]

process_batch(primary_file) ==
    \E call \in {find_n_most_similar_for_a_file(used_files, primary_file, df,
                     metric_to_analyze, n, class_to_analyse, ops)} :
    LET popped == IF identifier_to_test # NoId THEN all_files
                  ELSE all_files \ {primary_file}
        similar == call.returned
        outcome == Outcome(similar)
        used == UpdateUsed(used_files, primary_file, similar.ids)
    IN  /\ last' = CallRecord(primary_file, call, outcome)
        /\ batches' = Bump(batches)
        /\ IF outcome = "ok"
           THEN /\ groups' = groups \cup {<<primary_file, similar.ids>>}
                /\ used_files' = used
                /\ all_files' = DifferenceUpdate(popped, used)
                /\ pc' = "loop"
           ELSE /\ groups' = groups
                /\ used_files' = used_files
                /\ all_files' = popped
                /\ pc' = "crashed"
        /\ UNCHANGED config

\* mutant of LoopTest: the maximum is not tested
LoopTest_NoMax == all_files # {}

\* while all_files and len(used_files) < n_max
LoopTest == all_files # {} /\ Cardinality(used_files) < n_max

ProcessBatch ==
    /\ pc = "loop"
    /\ LoopTest
    /\ \E primary_file \in (IF identifier_to_test # NoId THEN {identifier_to_test}
                            ELSE all_files) :
          process_batch(primary_file)

LoopExit ==
    /\ pc = "loop"
    /\ ~LoopTest
    /\ pc' = "done"
    /\ UNCHANGED <<config, all_files, used_files, batches, groups, last>>

Next == ProcessBatch \/ LoopExit

Spec == Init /\ [][Next]_vars

(***************************************************************************)
(* One call of find_n_most_similar_for_a_file(used_files, id, df, ...) on  *)
(* a table of up to RankRows rows that differ in every compared column,    *)
(* for every identifier of the table and one that is absent.               *)
(***************************************************************************)
RankInit ==
    \/ \E table \in Tables(RankRows, {"stats_x", "stats_y"}), count \in 0..MaxN :
          Start(table, NoId, NoMetric, "stats", count, NoOps, DefaultNMax)
    \/ \E table \in Tables(RankRows, {"stats_x"}), count \in 0..MaxN,
          metric \in {"x", "bogus"} :
          Start(table, NoId, metric, "stats", count, NoOps, DefaultNMax)
    \/ \E table \in Tables(RankRows, {"classifications_g"}), count \in 0..MaxN :
          Start(table, NoId, NoMetric, "classifications", count, NoOps, DefaultNMax)
    \/ \E table \in Tables(RankRows, {"stats_x", "stats_y"}), options \in OpsChoices :
          Start(table, NoId, NoMetric, "stats", DefaultN, options, DefaultNMax)

RankCall ==
    /\ pc = "loop"
    /\ \E id \in Ids(df) \cup {AbsentId} :
       \E call \in {find_n_most_similar_for_a_file(used_files, id, df,
                        metric_to_analyze, n, class_to_analyse, ops)} :
          last' = CallRecord(id, call,
                             IF call.ranking.kind = "raise" THEN call.ranking.err
                             ELSE "ok")
    /\ pc' = "done"
    /\ UNCHANGED <<config, all_files, used_files, batches, groups>>

RankNext == RankCall

RankSpec == RankInit /\ [][RankNext]_vars

(***************************************************************************)
(* One call of find_n_most_similar_for_a_file on a table with missing      *)
(* values: a cell of stats_x (a compared column of class "stats") or of    *)
(* classifications_g (the compared column of class "classifications") may  *)
(* be Null.  In weighted mode the weight maps include those that give      *)
(* every column the weight 1.                                              *)
(***************************************************************************)
NullTablesOfSize(s, cols) ==
    {[i \in 1..s |-> RowOf(i, cols, t[i])] : t \in [1..s -> [cols -> CellValues]]}

NullTables(rows, cols) == UNION {NullTablesOfSize(s, cols) : s \in 0..rows}

UnitWeightMaps == {[k \in ks |-> 1] : ks \in {{}, {"x"}, {"x", "y"}}}

NullOpsChoices ==
    {[present |-> TRUE, class |-> "stats", n |-> k, has_weights |-> TRUE,
      weights |-> wm, exclusive_weights |-> ex] :
        k \in 0..MaxN, wm \in UnitWeightMaps \cup {[x \in {"x"} |-> 2]}, ex \in BOOLEAN}
    \cup
    {[present |-> TRUE, class |-> "stats", n |-> k, has_weights |-> FALSE,
      weights |-> [x \in {} |-> 0], exclusive_weights |-> FALSE] : k \in 0..MaxN}

NullInit ==
    \/ \E table \in NullTables(NullRows, {"stats_x", "classifications_g"}),
          count \in 0..MaxN, metric \in {NoMetric, "x"} :
          Start(table, NoId, metric, "stats", count, NoOps, DefaultNMax)
    \/ \E table \in NullTables(NullRows, {"stats_x", "classifications_g"}),
          count \in 0..MaxN :
          Start(table, NoId, NoMetric, "classifications", count, NoOps, DefaultNMax)
    \/ \E table \in NullTables(NullRows, {"stats_x", "classifications_g"}),
          options \in NullOpsChoices :
          Start(table, NoId, NoMetric, "stats", DefaultN, options, DefaultNMax)

NullNext == RankCall

NullSpec == NullInit /\ [][NullNext]_vars

(***************************************************************************)
(* Properties.                                                             *)
(***************************************************************************)
\* the members of an emitted group: the primary together with its similar list
Members(g) == {g[1]} \cup Range(g[2])

\* the loop has not been left by an exception: every batch so far returned
Completed == pc # "crashed"

\* C1: after any number of completed batches the remaining set and the grouped
\* set are disjoint, their union is the set of all corpus identifiers, and the
\* primary of the latest completed batch is in the grouped set.
C1_PartitionInvariant ==
    Completed =>
        /\ all_files \cap used_files = {}
        /\ all_files \cup used_files = Ids(df)
        /\ (last.outcome = "ok" => last.primary \in used_files)

\* C2: with arbitrary primary selection (no fixed identifier) every identifier
\* belongs to at most one emitted group.
C2_NoReuse ==
    identifier_to_test = NoId =>
        \A g1 \in groups : \A g2 \in groups :
            g1 # g2 => Members(g1) \cap Members(g2) = {}

\* C3: every run of the batch loop reaches the Terminal state after finitely
\* many batches.  The configuration never changes and, with a fixed identifier,
\* process_batch is a function of (all_files, used_files); a batch that comes
\* back to the while test with both sets as they were is therefore followed by
\* the same batch again, without end.  So a run that terminates has no batch
\* that leaves the grouping state unchanged with the loop test still true.
C3_EveryBatchProgresses ==
    [][(pc = "loop" /\ pc' = "loop" /\ LoopTest')
          => <<all_files, used_files>>' # <<all_files, used_files>>]_vars

\* C4: in weighted mode (ops supplied, class not "classifications") a batch
\* whose ranking function returned a list completes normally, emits
\* (primary, that list) and adds the list to the grouped set.
C4_WeightedBatchCompletes ==
    (last.mode = "weighted" /\ last.engine.kind = "list") =>
        /\ last.outcome = "ok"
        /\ last.similar.kind = "list"
        /\ last.similar.ids = last.engine.ids
        /\ <<last.primary, last.engine.ids>> \in groups
        /\ Range(last.engine.ids) \subseteq used_files

\* the table handed to the ranking function by the latest call, the count it
\* was asked for, and the list `distances` it built
PassedTable == ExcludeUsed(df, last.used_before)
RequestedN == IF last.mode = "weighted" THEN ops.n ELSE n
LastDistances ==
    IF last.mode = "weighted" THEN WeightedDistances(last.primary, PassedTable, ops)
    ELSE IF last.mode = "classifications"
    THEN ClassificationDistances(last.primary, PassedTable, class_to_analyse)
    ELSE MetricDistances(last.primary, PassedTable, metric_to_analyze, class_to_analyse)

\* the latest call ranked the candidates of an identifier that is in the table
Ranking == last.engine.kind = "list" /\ last.primary \in Range(last.pool)

\* C5: in weighted mode with exclusive_weights true every compared column that
\* the weight map does not list has weight 0; with an empty weight map every
\* candidate is at distance 0 and the ranking is the candidates in input order.
C5_ExclusiveWeights ==
    (Ranking /\ last.mode = "weighted" /\ ops.has_weights /\ ops.exclusive_weights) =>
        LET data_columns == ColumnsContaining(ops.class)
            listed == {ops.class \o "_" \o k : k \in DOMAIN ops.weights}
            reference == RowsWithId(PassedTable, last.primary)[1]
            candidates == Candidates(PassedTable, last.primary)
            \* the candidate agrees with the reference on every listed column
            SameListed(row) ==
                \A c \in Range(data_columns) \cap listed : row[c] = reference[c]
        IN  /\ \A i \in DOMAIN candidates :
                   SameListed(candidates[i]) => LastDistances[i][2] = 0
            /\ DOMAIN ops.weights = {} =>
                   last.engine.ids = Take(IdList(candidates), ops.n)

\* C6: a batch whose ranking function raised leaves the remaining set and the
\* grouped set as they were before the batch.
C6_FailedBatchLeavesState ==
    (last.outcome \notin {"none", "ok"} /\ last.engine.kind = "raise") =>
        /\ all_files = last.all_before
        /\ used_files = last.used_before

C8_ReferenceExcluded ==
    /\ Ranking => last.primary \notin Range(last.engine.ids)
    /\ last.similar.kind = "list" => last.primary \notin Range(last.similar.ids)

\* a ranking whose first entry is at distance 0, where the reference itself
\* would have tied for the first place
C8_Witness ==
    /\ Ranking
    /\ Len(last.engine.ids) = MaxN
    /\ \E i \in DOMAIN LastDistances :
          LastDistances[i] = <<last.engine.ids[1], 0>>

\* C9: the returned list has length exactly min(n, candidates available), the
\* candidates being the rows of the passed table other than the reference.
C9_LengthClamped ==
    Ranking => Len(last.engine.ids) = Min(RequestedN, Len(last.pool) - 1)

\* more were asked for than remain, and all that remain were returned
C9_Witness ==
    /\ Ranking
    /\ Len(last.pool) = 2
    /\ RequestedN = MaxN
    /\ Len(last.engine.ids) = 1

ComparedColumns ==
    IF last.mode = "weighted" THEN ColumnsContaining(ops.class)
    ELSE IF last.mode = "classifications" THEN ColumnsContaining(class_to_analyse)
    ELSE MetricColumns(metric_to_analyze, class_to_analyse)

\* the latest call was made for an identifier that is in the passed table
Called == last.outcome # "none" /\ last.primary \in Range(last.pool)

\* the reference row of the latest call
Reference == RowsWithId(PassedTable, last.primary)[1]

\* C11: in single/all-metric mode, classification mode and weighted mode alike,
\* a call whose reference row has a missing value in a compared column raises
\* the invalid-row error instead of returning a ranking, and the error is
\* raised only then.
C11_NullReferenceRaises ==
    Called =>
        ((\E c \in Range(ComparedColumns) : Reference[c] = Null)
            <=> (last.engine.kind = "raise" /\ last.engine.err = InvalidSoundData))

\* every column weight of the latest call's options is 1: there is no weight
\* map, or the map assigns 1 to each column it lists
AllWeightsOne ==
    ~ops.has_weights \/ \A k \in DOMAIN ops.weights : ops.weights[k] = 1

\* C12: for every table, reference identifier, class and n, weighted mode with
\* every column weight 1 returns exactly what the unweighted all-metric mode
\* (metric unset) returns over the same class columns.
C12_UnitWeightsAsUnweighted ==
    (last.outcome # "none" /\ last.mode = "weighted" /\ AllWeightsOne) =>
        last.engine = find_n_most_similar(last.primary, PassedTable, NoMetric,
                                          ops.n, ops.class)

\* C13: with arbitrary primary selection (no fixed identifier) and no engine
\* failure, every completed batch leaves the remaining set strictly smaller
\* than it found it, no primary of a completed batch is in the remaining set
\* again, and the number of batches run is at most the number of identifiers
\* of the corpus.
C13_RemainingShrinks ==
    (identifier_to_test = NoId /\ Completed) =>
        /\ last.outcome = "ok" =>
               /\ all_files \subseteq last.all_before
               /\ all_files # last.all_before
               /\ last.primary \notin all_files
        /\ \A g \in groups : g[1] \notin all_files
        /\ all_files \subseteq Ids(df)
        /\ batches <= Cardinality(Ids(df))

\* a run that took one batch for every identifier of a corpus of MaxRows
C13_Witness ==
    /\ identifier_to_test = NoId
    /\ pc = "done"
    /\ Len(df) = MaxRows
    /\ batches = MaxRows
    /\ Cardinality(groups) = MaxRows
    /\ all_files = {}

====
